---- MODULE Spec2Model ----
(***************************************************************************)
(* TrafficFlow dashboard (src/app.py): a Streamlit script that loads a     *)
(* traffic table once (st.cache_data), loads a regression model, renders   *)
(* four tabs and scores one request row per press of "Predict".            *)
(*                                                                         *)
(* Every user interaction re-runs the whole script ("a pass").  A pass is  *)
(* modelled as a sequence of steps, one per block of the script; an        *)
(* uncaught exception ends the pass where it is raised.  Passes run to     *)
(* completion: the platform's interruption of a running pass by a newer    *)
(* interaction is not modelled.                                            *)
(***************************************************************************)
EXTENDS Integers, Sequences, FiniteSets, TLC

(***************************************************************************)
(* Bounds of the model.                                                    *)
(***************************************************************************)
MaxBlocks == 2      \* row blocks in a raw file of the loader harness
MaxPasses == 4      \* script passes started, over all sessions

(***************************************************************************)
(* Optional values: <<>> is Python's None, <<x>> a present value.          *)
(***************************************************************************)
None == <<>>
Some(x) == <<x>>
Get(o) == o[1]

RECURSIVE SumSeq(_)
SumSeq(s) == IF s = <<>> THEN 0 ELSE Head(s) + SumSeq(Tail(s))

MaxOf(S) == CHOOSE x \in S : \A y \in S : y <= x
MinOf(S) == CHOOSE x \in S : \A y \in S : x <= y

(***************************************************************************)
(* Tables.  A table is [cols, rows]; a row block is [vals, n]: n           *)
(* consecutive rows holding the values vals, a function on cols.           *)
(***************************************************************************)
AllCols == {"latitude", "longitude", "date_time", "highway",
            "traffic_volume", "hour", "weekday"}

NRows(t) == SumSeq([i \in 1..Len(t.rows) |-> t.rows[i].n])

Column(t, c) == [i \in 1..Len(t.rows) |-> t.rows[i].vals[c]]

ColumnValues(t, c) == {t.rows[i].vals[c] : i \in 1..Len(t.rows)}

\* df[c] = values: a new column, or an existing one replaced
SetColumn(t, c, values) ==
    [cols |-> t.cols \cup {c},
     rows |-> [i \in 1..Len(t.rows) |->
                 [vals |-> [k \in t.cols \cup {c} |->
                              IF k = c THEN values[i]
                                       ELSE t.rows[i].vals[k]],
                  n    |-> t.rows[i].n]]]

\* df.apply(f, axis=1) and column arithmetic: one value per row
Rows(t) == [i \in 1..Len(t.rows) |-> t.rows[i].vals]

(***************************************************************************)
(* Timestamps.  A date_time cell is the civil time written in the file,    *)
(* [y, m, d, hh]; pd.to_datetime turns it into hours since 1970-01-01      *)
(* 00:00, and the .dt accessors decompose that instant.                    *)
(***************************************************************************)
DaysFromCivil(y, m, d) ==
    LET yy  == IF m <= 2 THEN y - 1 ELSE y
        era == yy \div 400
        yoe == yy - era * 400
        mp  == IF m > 2 THEN m - 3 ELSE m + 9
        doy == (153 * mp + 2) \div 5 + d - 1
        doe == yoe * 365 + yoe \div 4 - yoe \div 100 + doy
    IN  era * 146097 + doe - 719468

to_datetime(c) == DaysFromCivil(c.y, c.m, c.d) * 24 + c.hh

dt_hour(t) == t % 24

\* 1970-01-01 was a Thursday; Monday = 0
dt_weekday_mut(t) == ((t \div 24) + 4) % 7

dt_weekday(t) == ((t \div 24) + 3) % 7

(***************************************************************************)
(* load_data (lines 83-91), without the cache.                             *)
(* A raw file is [exists, cols, rows].                                     *)
(***************************************************************************)
Raised(e) == [err |-> e, gdf |-> None]
Returned(t) == [err |-> "", gdf |-> Some(t)]

read_csv(f) == [cols |-> f.cols, rows |-> f.rows]

Point(x, y) == <<x, y>>

with_geometry(t) ==
    SetColumn(t, "geometry",
              [i \in 1..Len(t.rows) |->
                  Point(Rows(t)[i]["longitude"], Rows(t)[i]["latitude"])])

backfill_hour_mut(t) ==
    IF "date_time" \in t.cols
    THEN SetColumn(t, "hour",
                   [i \in 1..Len(t.rows) |->
                       dt_hour(to_datetime(Column(t, "date_time")[i]))])
    ELSE t

backfill_hour(t) ==
    IF "hour" \notin t.cols
    THEN SetColumn(t, "hour",
                   [i \in 1..Len(t.rows) |->
                       dt_hour(to_datetime(Column(t, "date_time")[i]))])
    ELSE t

backfill_weekday(t) ==
    IF "weekday" \notin t.cols
    THEN SetColumn(t, "weekday",
                   [i \in 1..Len(t.rows) |->
                       dt_weekday(to_datetime(Column(t, "date_time")[i]))])
    ELSE t

load_data_mut(f) ==
    IF ~f.exists THEN Raised("FileNotFoundError")
    ELSE IF ~({"hour", "weekday"} \subseteq f.cols) /\ "date_time" \notin f.cols
         THEN Raised("KeyError")
    ELSE Returned(backfill_weekday(backfill_hour(
             IF {"longitude", "latitude"} \subseteq f.cols
             THEN with_geometry(read_csv(f))
             ELSE read_csv(f))))

load_data(f) ==
    IF ~f.exists THEN Raised("FileNotFoundError")
    ELSE IF ~({"longitude", "latitude"} \subseteq f.cols) THEN Raised("KeyError")
    ELSE IF ~({"hour", "weekday"} \subseteq f.cols) /\ "date_time" \notin f.cols
         THEN Raised("KeyError")
    ELSE Returned(backfill_weekday(backfill_hour(with_geometry(read_csv(f)))))


(***************************************************************************)
(* Raw files the model draws from.                                         *)
(***************************************************************************)
Dates == {[y |-> 2024, m |-> 1,  d |-> 1,  hh |-> 8],
          [y |-> 2023, m |-> 12, d |-> 31, hh |-> 23],
          [y |-> 1969, m |-> 12, d |-> 27, hh |-> 17]}

FullRow(dt, hr, wd, hwy, vol) ==
    [c \in AllCols |->
        CASE c = "latitude"       -> -1
          [] c = "longitude"      -> 36
          [] c = "date_time"      -> dt
          [] c = "highway"        -> hwy
          [] c = "traffic_volume" -> vol
          [] c = "hour"           -> hr
          [] c = "weekday"        -> wd]

Block(vals, n) == [vals |-> vals, n |-> n]

\* the file holding only the columns cols of the full rows
MkFile(cols, blocks) ==
    [exists |-> TRUE,
     cols   |-> cols,
     rows   |-> [i \in 1..Len(blocks) |->
                   Block([c \in cols |-> blocks[i].vals[c]], blocks[i].n)]]

NoFile == [exists |-> FALSE, cols |-> {}, rows |-> <<>>]

D_mon == [y |-> 2024, m |-> 1,  d |-> 1,  hh |-> 8]
D_sun == [y |-> 2023, m |-> 12, d |-> 31, hh |-> 23]

\* files of the loader harness: any set of columns, up to MaxBlocks one-row
\* blocks, raw hour/weekday cells that need not agree with date_time
LoadRowVals ==
    {FullRow(dt, hw[1], hw[2], "motorway", 400) :
        dt \in Dates, hw \in {<<8, 0>>, <<23, 6>>}}

LoadFiles ==
    {NoFile} \cup
    {MkFile(AllCols \ M, [i \in 1..k |-> Block(rv[i], 1)]) :
        M \in SUBSET AllCols,
        k \in 1..MaxBlocks,
        rv \in [1..MaxBlocks -> LoadRowVals]}

\* files of the dashboard: 500 rows on two road types, and the variations
\* that make a block of the script raise
BigRows(vol) ==
    << Block(FullRow(D_mon, 8, 0, "motorway", 400), 1),
       Block(FullRow(D_sun, 5, 6, "residential", vol), 499) >>

SmallRows ==
    << Block(FullRow(D_sun, 5, 6, "residential", 2000), 499) >>

Required == {"latitude", "longitude", "traffic_volume", "highway"}

DashFiles ==
    {MkFile(AllCols, BigRows(2000)),
     MkFile(AllCols \ {"hour", "weekday"}, BigRows(2000)),
     MkFile(AllCols, BigRows(1200)),
     MkFile(AllCols, SmallRows)}
    \cup {MkFile(AllCols \ {c}, BigRows(2000)) : c \in Required}

ConcFiles ==
    {MkFile(AllCols \ {"hour", "weekday"}, BigRows(2000)),
     MkFile(AllCols \ {"latitude"}, BigRows(2000))}

(***************************************************************************)
(* Model artifacts: joblib.load yields an object with predict and, for     *)
(* some model types, feature_importances_.                                 *)
(***************************************************************************)
Models ==
    {[exists |-> TRUE,  importances |-> Some(<<30, 5, 10, 20, 15, 12, 8>>)],
     [exists |-> TRUE,  importances |-> Some(<<60, 30, 10>>)],
     [exists |-> TRUE,  importances |-> None],
     [exists |-> FALSE, importances |-> None]}

ConcModels == {[exists |-> TRUE, importances |-> None]}

\* what one model.predict call can do: raise, or return a one-element array
PredictOutcomes == {[raised |-> TRUE, y |-> 0], [raised |-> FALSE, y |-> 1234]}


(***************************************************************************)
(* State.                                                                  *)
(***************************************************************************)
Sessions == {"s1", "s2"}

VARIABLES
    file,        \* data/merged_traffic.csv as it is on disk
    model_file,  \* models/traffic_model.joblib as it is on disk
    cache,       \* st.cache_data's entry for load_data(): None or the table
    lock,        \* the cache's compute lock: None or the session holding it
    loads,       \* executions of load_data's body begun so far
    loads_ok,    \* executions of load_data's body that returned a table
    passes,      \* script passes started so far
    pc,          \* per session: the block of the script it is at
    widgets,     \* per session: the widget values kept across passes
    trigger,     \* per session: whether a press of Predict started this pass
    df,          \* per session: this pass's df (None before line 93)
    script,      \* per session: this pass's sidebar variables (lines 99-106)
    feat_imp,    \* per session: this pass's feat_imp (line 150)
    x_input,     \* per session: this pass's request row (line 176)
    calls,       \* per session: model.predict calls made in this pass
    pred,        \* per session: this pass's pred (line 185)
    metrics,     \* per session: the Insights tab's three cards
    rendered,    \* per session: the elements this pass has put on the page
    error,       \* per session: the uncaught exception that ended this pass
    ret          \* loader harness: what successive load_data() calls returned

vars == <<file, model_file, cache, lock, loads, loads_ok, passes, pc, widgets,
          trigger, df, script, feat_imp, x_input, calls, pred, metrics,
          rendered, error, ret>>

env == <<file, model_file>>

(***************************************************************************)
(* Sidebar (lines 98-106).                                                 *)
(***************************************************************************)
SampleSize == 500

\* the values the widgets show before the user touches them
WidgetDefaults ==
    [road_type |-> None, hour |-> 8, temp |-> 25, rain |-> 0, lanes |-> 2,
     speed_limit |-> 50, weekday |-> 0]

\* the values a user may give each numeric widget
WidgetValues ==
    [hour        |-> {8, 23},
     temp        |-> {25, -3},
     rain        |-> {0, 12},
     lanes       |-> {2, 8},
     speed_limit |-> {50, 110},
     weekday     |-> 0..6]

\* df['highway'].unique(): the distinct values in order of first appearance
unique(seq) ==
    LET firsts == {i \in 1..Len(seq) : \A j \in 1..(i - 1) : seq[j] # seq[i]}
        rank(i) == Cardinality({j \in firsts : j < i}) + 1
    IN  [k \in 1..Cardinality(firsts) |->
            seq[CHOOSE i \in firsts : rank(i) = k]]

is_weekend_mut(weekday) == IF weekday > 5 THEN 1 ELSE 0

is_weekend_of(weekday) == IF weekday >= 5 THEN 1 ELSE 0

\* the script's variables after line 106, for widget state w and table t
sidebar(w, t) ==
    LET options == unique(Column(t, "highway"))
    IN  [road_type   |-> IF w.road_type = None THEN options[1]
                                               ELSE Get(w.road_type),
         hour        |-> w.hour,
         temp        |-> w.temp,
         rain        |-> w.rain,
         lanes       |-> w.lanes,
         speed_limit |-> w.speed_limit,
         weekday     |-> w.weekday,
         is_weekend  |-> is_weekend_of(w.weekday)]

NoScript ==
    [road_type |-> "", hour |-> 0, temp |-> 0, rain |-> 0, lanes |-> 0,
     speed_limit |-> 0, weekday |-> 0, is_weekend |-> 0]

(***************************************************************************)
(* EDA tab (lines 127-155).                                                *)
(***************************************************************************)
\* pd.cut with bins [0, 500, 1000, 1500, top], right-closed
traffic_category(v, top) ==
    CASE 0 < v /\ v <= 500      -> "Low"
      [] 500 < v /\ v <= 1000   -> "Medium"
      [] 1000 < v /\ v <= 1500  -> "High"
      [] 1500 < v /\ v <= top   -> "Very High"
      [] OTHER                  -> "NaN"

with_category(t) ==
    LET top == MaxOf(ColumnValues(t, "traffic_volume"))
    IN  SetColumn(t, "traffic_category",
                  [i \in 1..Len(t.rows) |->
                      traffic_category(Column(t, "traffic_volume")[i], top)])

feature_cols ==
    <<"hour", "temp", "rain_1h", "lanes", "maxspeed", "weekday", "is_weekend">>

\* pd.Series(importances, index=feature_cols).sort_values(ascending=False);
\* the weights of a model are distinct
sorted_importances(importances) ==
    LET n == Len(importances)
        rank(i) == Cardinality({j \in 1..n : importances[j] > importances[i]}) + 1
    IN  [k \in 1..n |->
            LET i == CHOOSE i \in 1..n : rank(i) = k
            IN  <<feature_cols[i], importances[i]>>]

(***************************************************************************)
(* Prediction tab (lines 172-186) and Insights tab (lines 189-208).        *)
(***************************************************************************)
build_x_input_mut(l) ==
    << <<"hour", l.hour>>, <<"temp", l.temp>>, <<"rain_1h", l.rain>>,
       <<"maxspeed", l.speed_limit>>, <<"lanes", l.lanes>>,
       <<"weekday", l.weekday>>, <<"is_weekend", l.is_weekend>> >>

\* the single-row frame of line 176: its columns in order, each with its value
build_x_input(l) ==
    << <<"hour", l.hour>>, <<"temp", l.temp>>, <<"rain_1h", l.rain>>,
       <<"lanes", l.lanes>>, <<"maxspeed", l.speed_limit>>,
       <<"weekday", l.weekday>>, <<"is_weekend", l.is_weekend>> >>

insight_cards(t) ==
    LET total == SumSeq([i \in 1..Len(t.rows) |->
                           t.rows[i].vals["traffic_volume"] * t.rows[i].n])
    IN  [average |-> total \div NRows(t),
         maximum |-> MaxOf(ColumnValues(t, "traffic_volume")),
         minimum |-> MinOf(ColumnValues(t, "traffic_volume"))]


(***************************************************************************)
(* Initial states.                                                         *)
(***************************************************************************)
InitProcess ==
    /\ cache = None
    /\ lock = None
    /\ loads = 0
    /\ loads_ok = 0
    /\ widgets = [s \in Sessions |-> WidgetDefaults]
    /\ trigger = [s \in Sessions |-> FALSE]
    /\ df = [s \in Sessions |-> None]
    /\ script = [s \in Sessions |-> NoScript]
    /\ feat_imp = [s \in Sessions |-> None]
    /\ x_input = [s \in Sessions |-> None]
    /\ calls = [s \in Sessions |-> 0]
    /\ pred = [s \in Sessions |-> None]
    /\ metrics = [s \in Sessions |-> None]
    /\ rendered = [s \in Sessions |-> {}]
    /\ error = [s \in Sessions |-> None]
    /\ ret = <<>>

\* one browser session, running its first pass
Init ==
    /\ file \in DashFiles
    /\ model_file \in Models
    /\ pc = [s \in Sessions |-> IF s = "s1" THEN "load" ELSE "off"]
    /\ passes = 1
    /\ InitProcess

\* two browser sessions connected at once, both in their first pass
InitConc ==
    /\ file \in ConcFiles
    /\ model_file \in ConcModels
    /\ pc = [s \in Sessions |-> "load"]
    /\ passes = 2
    /\ InitProcess

\* the loader alone, on any raw file
InitLoad ==
    /\ file \in LoadFiles
    /\ model_file \in ConcModels
    /\ pc = [s \in Sessions |-> "off"]
    /\ passes = 0
    /\ InitProcess

(***************************************************************************)
(* A pass begins: the script's variables start afresh, the page is         *)
(* cleared, the widget values w are the ones the script will read.         *)
(***************************************************************************)
StartPass(s, w, pressed) ==
    /\ passes < MaxPasses
    /\ passes' = passes + 1
    /\ pc' = [pc EXCEPT ![s] = "load"]
    /\ widgets' = [widgets EXCEPT ![s] = w]
    /\ trigger' = [trigger EXCEPT ![s] = pressed]
    /\ df' = [df EXCEPT ![s] = None]
    /\ script' = [script EXCEPT ![s] = NoScript]
    /\ feat_imp' = [feat_imp EXCEPT ![s] = None]
    /\ x_input' = [x_input EXCEPT ![s] = None]
    /\ calls' = [calls EXCEPT ![s] = 0]
    /\ pred' = [pred EXCEPT ![s] = None]
    /\ metrics' = [metrics EXCEPT ![s] = None]
    /\ rendered' = [rendered EXCEPT ![s] = {}]
    /\ error' = [error EXCEPT ![s] = None]
    /\ UNCHANGED <<env, cache, lock, loads, loads_ok, ret>>

\* an uncaught exception: the pass ends here and the page shows the exception
Raise(s, at, exc) ==
    /\ pc' = [pc EXCEPT ![s] = "idle"]
    /\ error' = [error EXCEPT ![s] = Some([at |-> at, exc |-> exc])]
    /\ rendered' = [rendered EXCEPT ![s] = @ \cup {"exception"}]

(***************************************************************************)
(* User actions.  A widget can be used once a pass has rendered it.        *)
(***************************************************************************)
ChangeInput(s) ==
    /\ pc[s] = "idle"
    /\ "sidebar" \in rendered[s]
    /\ \E w \in DOMAIN WidgetValues : \E v \in WidgetValues[w] :
          /\ v # widgets[s][w]
          /\ StartPass(s, [widgets[s] EXCEPT ![w] = v], FALSE)

\* the road types offered are df['highway'].unique() of the last pass
SelectRoadType(s) ==
    /\ pc[s] = "idle"
    /\ "sidebar" \in rendered[s]
    /\ \E v \in ColumnValues(Get(df[s]), "highway") :
          /\ v # script[s].road_type
          /\ StartPass(s, [widgets[s] EXCEPT !.road_type = Some(v)], FALSE)

PressPredict(s) ==
    /\ pc[s] = "idle"
    /\ "button" \in rendered[s]
    /\ StartPass(s, widgets[s], TRUE)

(***************************************************************************)
(* Line 93, df = load_data(), through st.cache_data (line 82): a hit       *)
(* returns a copy of the entry; a miss takes the compute lock, looks       *)
(* again, and only then runs the body; a body that raises stores nothing.  *)
(***************************************************************************)
cache_hit(c) == c # None

recheck_mut(c) == FALSE

\* the second look at the cache, made while holding the compute lock
recheck(c) == cache_hit(c)

lock_free(l) == l = None

Lookup(s) ==
    /\ pc[s] = "load"
    /\ IF cache_hit(cache)
       THEN /\ df' = [df EXCEPT ![s] = cache]
            /\ pc' = [pc EXCEPT ![s] = "model"]
       ELSE /\ pc' = [pc EXCEPT ![s] = "wait_lock"]
            /\ UNCHANGED df
    /\ UNCHANGED <<env, cache, lock, loads, loads_ok, passes, widgets,
                   trigger, script, feat_imp, x_input, calls, pred, metrics,
                   rendered, error, ret>>

AcquireLock(s) ==
    /\ pc[s] = "wait_lock"
    /\ lock_free(lock)
    /\ lock' = Some(s)
    /\ pc' = [pc EXCEPT ![s] = "locked"]
    /\ UNCHANGED <<env, cache, loads, loads_ok, passes, widgets, trigger, df,
                   script, feat_imp, x_input, calls, pred, metrics, rendered,
                   error, ret>>

Locked(s) ==
    /\ pc[s] = "locked"
    /\ IF recheck(cache)
       THEN /\ df' = [df EXCEPT ![s] = cache]
            /\ lock' = None
            /\ pc' = [pc EXCEPT ![s] = "model"]
            /\ UNCHANGED loads
       ELSE /\ loads' = loads + 1
            /\ pc' = [pc EXCEPT ![s] = "loading"]
            /\ UNCHANGED <<df, lock>>
    /\ UNCHANGED <<env, cache, loads_ok, passes, widgets, trigger, script,
                   feat_imp, x_input, calls, pred, metrics, rendered, error,
                   ret>>

EndLoad(s) ==
    /\ pc[s] = "loading"
    /\ lock' = None
    /\ LET r == load_data(file)
       IN  IF r.err = ""
           THEN /\ cache' = r.gdf
                /\ loads_ok' = loads_ok + 1
                /\ df' = [df EXCEPT ![s] = r.gdf]
                /\ pc' = [pc EXCEPT ![s] = "model"]
                /\ UNCHANGED <<error, rendered>>
           ELSE /\ Raise(s, "load_data", r.err)
                /\ UNCHANGED <<cache, loads_ok, df>>
    /\ UNCHANGED <<env, loads, passes, widgets, trigger, script, feat_imp,
                   x_input, calls, pred, metrics, ret>>

\* lines 94-95
LoadModel(s) ==
    /\ pc[s] = "model"
    /\ IF model_file.exists
       THEN /\ pc' = [pc EXCEPT ![s] = "sidebar"]
            /\ UNCHANGED <<error, rendered>>
       ELSE Raise(s, "joblib.load", "FileNotFoundError")
    /\ UNCHANGED <<env, cache, lock, loads, loads_ok, passes, widgets,
                   trigger, df, script, feat_imp, x_input, calls, pred,
                   metrics, ret>>


\* lines 98-106: the first widget reads df['highway']
Sidebar(s) ==
    /\ pc[s] = "sidebar"
    /\ IF "highway" \in Get(df[s]).cols
       THEN /\ script' = [script EXCEPT ![s] = sidebar(widgets[s], Get(df[s]))]
            /\ rendered' = [rendered EXCEPT ![s] = @ \cup {"sidebar"}]
            /\ pc' = [pc EXCEPT ![s] = "eda"]
            /\ UNCHANGED error
       ELSE /\ Raise(s, "sidebar", "KeyError")
            /\ UNCHANGED script
    /\ UNCHANGED <<env, cache, lock, loads, loads_ok, passes, widgets,
                   trigger, df, feat_imp, x_input, calls, pred, metrics, ret>>

\* lines 127-143: the box plot needs traffic_volume; pd.cut needs bin edges
\* that increase, so a largest volume above 1500; line 138 writes to df
eda_error(t) ==
    IF "traffic_volume" \notin t.cols THEN "ValueError: traffic_volume"
    ELSE IF MaxOf(ColumnValues(t, "traffic_volume")) <= 1500 THEN "ValueError: bins"
    ELSE ""

EdaTab(s) ==
    /\ pc[s] = "eda"
    /\ IF eda_error(Get(df[s])) = ""
       THEN /\ df' = [df EXCEPT ![s] = Some(with_category(Get(df[s])))]
            /\ rendered' = [rendered EXCEPT ![s] = @ \cup {"eda"}]
            /\ pc' = [pc EXCEPT ![s] = "fi"]
            /\ UNCHANGED error
       ELSE /\ Raise(s, "eda", eda_error(Get(df[s])))
            /\ UNCHANGED df
    /\ UNCHANGED <<env, cache, lock, loads, loads_ok, passes, widgets,
                   trigger, script, feat_imp, x_input, calls, pred, metrics,
                   ret>>

\* lines 148-153, the body of the try
fi_try(m) ==
    IF m.importances = None
    THEN [exc |-> "AttributeError", feat_imp |-> None]
    ELSE IF Len(Get(m.importances)) # Len(feature_cols)
    THEN [exc |-> "ValueError", feat_imp |-> None]
    ELSE [exc |-> "", feat_imp |-> Some(sorted_importances(Get(m.importances)))]

fi_section_mut(m) ==
    [exc |-> fi_try(m).exc, feat_imp |-> fi_try(m).feat_imp,
     shown |-> "fi_plot"]

\* lines 147-155, the try with its bare except
fi_section(m) ==
    IF fi_try(m).exc = ""
    THEN [exc |-> "", feat_imp |-> fi_try(m).feat_imp, shown |-> "fi_plot"]
    ELSE [exc |-> "", feat_imp |-> None, shown |-> "fi_info"]

FeatureImportance(s) ==
    /\ pc[s] = "fi"
    /\ LET r == fi_section(model_file)
       IN  IF r.exc = ""
           THEN /\ feat_imp' = [feat_imp EXCEPT ![s] = r.feat_imp]
                /\ rendered' = [rendered EXCEPT ![s] = @ \cup {r.shown}]
                /\ pc' = [pc EXCEPT ![s] = "map"]
                /\ UNCHANGED error
           ELSE /\ Raise(s, "fi", r.exc)
                /\ UNCHANGED feat_imp
    /\ UNCHANGED <<env, cache, lock, loads, loads_ok, passes, widgets,
                   trigger, df, script, x_input, calls, pred, metrics, ret>>

\* lines 158-169: df.sample(500) needs 500 rows; which rows it draws does
\* not reach any other part of the state
MapTab(s) ==
    /\ pc[s] = "map"
    /\ IF NRows(Get(df[s])) >= SampleSize
       THEN /\ rendered' = [rendered EXCEPT ![s] = @ \cup {"map"}]
            /\ pc' = [pc EXCEPT ![s] = "predict"]
            /\ UNCHANGED error
       ELSE Raise(s, "map", "ValueError: sample")
    /\ UNCHANGED <<env, cache, lock, loads, loads_ok, passes, widgets,
                   trigger, df, script, feat_imp, x_input, calls, pred,
                   metrics, ret>>

button_mut(pressed) == TRUE

\* st.button("Predict"): True in the pass its press started, False otherwise
button(pressed) == pressed

\* lines 172-186
PredictionTab(s) ==
    /\ pc[s] = "predict"
    /\ IF button(trigger[s])
       THEN \E o \in PredictOutcomes :
              /\ x_input' = [x_input EXCEPT
                                ![s] = Some(build_x_input(script[s]))]
              /\ calls' = [calls EXCEPT ![s] = @ + 1]
              /\ IF o.raised
                 THEN /\ error' = [error EXCEPT ![s] =
                                     Some([at  |-> "predict",
                                           exc |-> "InferenceError"])]
                      /\ rendered' = [rendered EXCEPT
                                         ![s] = @ \cup {"button", "exception"}]
                      /\ pc' = [pc EXCEPT ![s] = "idle"]
                      /\ UNCHANGED pred
                 ELSE /\ pred' = [pred EXCEPT ![s] = Some(o.y)]
                      /\ rendered' = [rendered EXCEPT
                                         ![s] = @ \cup {"button", "pred_card"}]
                      /\ pc' = [pc EXCEPT ![s] = "insights"]
                      /\ UNCHANGED error
       ELSE /\ rendered' = [rendered EXCEPT ![s] = @ \cup {"button"}]
            /\ pc' = [pc EXCEPT ![s] = "insights"]
            /\ UNCHANGED <<x_input, calls, pred, error>>
    /\ UNCHANGED <<env, cache, lock, loads, loads_ok, passes, widgets,
                   trigger, df, script, feat_imp, metrics, ret>>

\* lines 189-208; the pass ends
InsightsTab(s) ==
    /\ pc[s] = "insights"
    /\ metrics' = [metrics EXCEPT ![s] = Some(insight_cards(Get(df[s])))]
    /\ rendered' = [rendered EXCEPT ![s] = @ \cup {"insights"}]
    /\ pc' = [pc EXCEPT ![s] = "idle"]
    /\ UNCHANGED <<env, cache, lock, loads, loads_ok, passes, widgets,
                   trigger, df, script, feat_imp, x_input, calls, pred, error,
                   ret>>

(***************************************************************************)
(* Loader harness: load_data's body called directly, twice at most.        *)
(***************************************************************************)
CallLoadData ==
    /\ Len(ret) < 2
    /\ ret' = Append(ret, load_data(file))
    /\ UNCHANGED <<env, cache, lock, loads, loads_ok, passes, pc, widgets,
                   trigger, df, script, feat_imp, x_input, calls, pred,
                   metrics, rendered, error>>

(***************************************************************************)
(* Specifications.                                                         *)
(***************************************************************************)
Next ==
    \E s \in Sessions :
        \/ Lookup(s)
        \/ AcquireLock(s)
        \/ Locked(s)
        \/ EndLoad(s)
        \/ LoadModel(s)
        \/ Sidebar(s)
        \/ EdaTab(s)
        \/ FeatureImportance(s)
        \/ MapTab(s)
        \/ PredictionTab(s)
        \/ InsightsTab(s)
        \/ PressPredict(s)
        \/ ChangeInput(s)
        \/ SelectRoadType(s)

NextLoad == CallLoadData

Spec == Init /\ [][Next]_vars

SpecConc == InitConc /\ [][Next]_vars

SpecLoad == InitLoad /\ [][NextLoad]_vars


(***************************************************************************)
(* Properties.                                                             *)
(***************************************************************************)
Names(x) == [i \in 1..Len(x) |-> x[i][1]]

Field(x, name) == x[CHOOSE i \in 1..Len(x) : x[i][1] = name][2]

InFlight == {s \in Sessions : pc[s] = "loading"}

PassOver(s) == pc[s] = "idle"

\* the calendar: the weekday (Monday = 0) each date of Dates fell on
KnownWeekday(c) ==
    CASE c = [y |-> 2024, m |-> 1,  d |-> 1,  hh |-> 8]  -> 0
      [] c = [y |-> 2023, m |-> 12, d |-> 31, hh |-> 23] -> 6
      [] c = [y |-> 1969, m |-> 12, d |-> 27, hh |-> 17] -> 5

\* C1: every request built on a Predict press has exactly the seven fields
\* hour, temp, rain_1h, lanes, maxspeed, weekday, is_weekend, in that order,
\* each holding the value of its own sidebar input whatever the order the
\* inputs were set in; the feature importances are labelled by the same
\* ordered list (the i-th weight of the model gets the i-th request column).
C1_FeatureOrder ==
    \A s \in Sessions :
        x_input[s] # None =>
            LET x == Get(x_input[s])
            IN  /\ Len(x) = 7
                /\ Names(x) = <<"hour", "temp", "rain_1h", "lanes", "maxspeed",
                                "weekday", "is_weekend">>
                /\ x[1][2] = widgets[s].hour
                /\ x[2][2] = widgets[s].temp
                /\ x[3][2] = widgets[s].rain
                /\ x[4][2] = widgets[s].lanes
                /\ x[5][2] = widgets[s].speed_limit
                /\ x[6][2] = widgets[s].weekday
                /\ feat_imp[s] # None =>
                      LET f == Get(feat_imp[s])
                          w == Get(model_file.importances)
                      IN  /\ Len(f) = 7
                          /\ \A i \in 1..7 :
                                \E k \in 1..7 : f[k] = <<x[i][1], w[i]>>

C1_Witness ==
    \E s \in Sessions :
        /\ x_input[s] # None
        /\ feat_imp[s] # None
        /\ widgets[s].lanes = 8
        /\ widgets[s].speed_limit = 110

\* C2: in every request built, is_weekend is 1 exactly when the request's
\* weekday is 5 or 6 and 0 otherwise, and that weekday is the one selected
\* for the pass that builds the request, not one of an earlier pass.
C2_WeekendLaw ==
    \A s \in Sessions :
        x_input[s] # None =>
            LET x == Get(x_input[s])
            IN  /\ Field(x, "weekday") = widgets[s].weekday
                /\ Field(x, "weekday") \in 0..6
                /\ Field(x, "is_weekend") =
                      (IF Field(x, "weekday") \in {5, 6} THEN 1 ELSE 0)

\* a request for Saturday
C2_Witness ==
    \E s \in Sessions :
        /\ x_input[s] # None
        /\ Field(Get(x_input[s]), "weekday") = 5
        /\ Field(Get(x_input[s]), "is_weekend") = 1

\* C3 as stated: load_data's body runs at most once in the process, and
\* never twice at the same time.
C3_LoadAtMostOnce ==
    /\ loads <= 1
    /\ Cardinality(InFlight) <= 1

\* C3, amended: at most one run of load_data's body returns a table, no run
\* begins after that one, and never two runs are in flight at once (a run
\* that raises stores nothing, so a later pass runs the body again).
C3_OneSuccessfulLoad ==
    /\ loads_ok <= 1
    /\ loads_ok = 1 => (loads = 1 /\ cache # None)
    /\ Cardinality(InFlight) <= 1

\* two passes on a cold cache: one loading, the other waiting for the lock
C3_Witness ==
    \E s, t \in Sessions :
        /\ pc[s] = "loading"
        /\ pc[t] = "wait_lock"

\* C4 as stated: whenever a pass holds the loaded table, its columns and
\* values are the ones load_data returned.
C4_TableUnchanged ==
    \A s \in Sessions :
        df[s] # None => df[s] = cache

\* C5: a column hour present in the raw file is returned as it is, also where
\* it disagrees with date_time, and so is weekday; each of the two is derived
\* from date_time exactly when that column is absent, whatever the other is.
C5_BackfillOnly ==
    \A i \in 1..Len(ret) :
        ret[i].err = "" =>
            LET t == Get(ret[i].gdf)
                dates == Column(file, "date_time")
            IN  /\ "hour" \in file.cols =>
                      Column(t, "hour") = Column(file, "hour")
                /\ "weekday" \in file.cols =>
                      Column(t, "weekday") = Column(file, "weekday")
                /\ "hour" \notin file.cols =>
                      Column(t, "hour") = [k \in 1..Len(dates) |-> dates[k].hh]
                /\ "weekday" \notin file.cols =>
                      Column(t, "weekday") =
                          [k \in 1..Len(dates) |-> KnownWeekday(dates[k])]

\* a file with an hour column that disagrees with date_time and no weekday
C5_Witness ==
    /\ Len(ret) > 0
    /\ ret[1].err = ""
    /\ "hour" \in file.cols
    /\ "weekday" \notin file.cols
    /\ \E k \in 1..Len(file.rows) :
          file.rows[k].vals["hour"] # file.rows[k].vals["date_time"].hh

C7_FailureScoped ==
    \A s \in Sessions :
        (PassOver(s) /\ error[s] # None /\ Get(error[s]).at = "predict") =>
            "insights" \in rendered[s]

\* C8: once a pass is past the feature-importance section with a model that
\* cannot give seven importances, the page shows the informational note and
\* no plot, the section has raised nothing, and a pass that ends without an
\* error has rendered the map, the prediction tab and the insights.
C8_ImportanceAbsent ==
    \A s \in Sessions :
        ("eda" \in rendered[s] /\ pc[s] # "fi" /\ fi_try(model_file).exc # "") =>
            /\ "fi_info" \in rendered[s]
            /\ "fi_plot" \notin rendered[s]
            /\ feat_imp[s] = None
            /\ error[s] # None => Get(error[s]).at # "fi"
            /\ (PassOver(s) /\ error[s] = None) =>
                  {"map", "button", "insights"} \subseteq rendered[s]

C8_Witness ==
    \E s \in Sessions :
        /\ model_file.importances = None
        /\ PassOver(s)
        /\ {"fi_info", "map", "button", "insights"} \subseteq rendered[s]

\* C9: for a raw file without hour and without weekday that has latitude,
\* longitude and date_time, load_data returns a table holding geometry, hour
\* and weekday, with hour the hour of day and weekday the day of the week
\* (Monday = 0) of each row's date_time; a second load of the same file gives
\* the same two columns.
C9_Derivation ==
    ("hour" \notin file.cols /\ "weekday" \notin file.cols
        /\ {"latitude", "longitude", "date_time"} \subseteq file.cols) =>
        /\ \A i \in 1..Len(ret) :
              /\ ret[i].err = ""
              /\ LET t == Get(ret[i].gdf)
                 IN  /\ {"geometry", "hour", "weekday"} \subseteq t.cols
                     /\ Len(t.rows) = Len(file.rows)
                     /\ \A k \in 1..Len(t.rows) :
                           LET row == t.rows[k].vals
                           IN  /\ row["hour"] = row["date_time"].hh
                               /\ row["weekday"] = KnownWeekday(row["date_time"])
        /\ Len(ret) = 2 =>
              /\ Column(Get(ret[1].gdf), "hour") = Column(Get(ret[2].gdf), "hour")
              /\ Column(Get(ret[1].gdf), "weekday") =
                     Column(Get(ret[2].gdf), "weekday")

\* two loads of a file without hour and weekday, one row before 1970
C9_Witness ==
    /\ Len(ret) = 2
    /\ "hour" \notin file.cols
    /\ "weekday" \notin file.cols
    /\ ret[2].err = ""
    /\ \E k \in 1..Len(file.rows) : file.rows[k].vals["date_time"].y = 1969

\* C10: a pass makes at most one model.predict call; a pass that a sidebar
\* input (or the first page load) started builds no request and makes no
\* call; a pass that a press started makes, by the time it is past the
\* prediction tab, exactly one call, on the request built from the input
\* values of that pass.
C10_OncePerPress ==
    \A s \in Sessions :
        /\ calls[s] <= 1
        /\ ~trigger[s] => (calls[s] = 0 /\ x_input[s] = None /\ pred[s] = None)
        /\ (trigger[s] /\ pc[s] \in {"insights", "idle"}) =>
              /\ calls[s] = 1
              /\ x_input[s] # None
              /\ \A w \in {"hour", "temp", "lanes", "weekday"} :
                    Field(Get(x_input[s]), w) = widgets[s][w]
              /\ Field(Get(x_input[s]), "rain_1h") = widgets[s].rain
              /\ Field(Get(x_input[s]), "maxspeed") = widgets[s].speed_limit

\* a press made after the hour was changed
C10_Witness ==
    \E s \in Sessions :
        /\ trigger[s]
        /\ PassOver(s)
        /\ calls[s] = 1
        /\ widgets[s].hour = 23

====
